---- MODULE Spec2Model ----
(***************************************************************************)
(* Model of synthcity's NormalizingFlowsPlugin (plugin_nflow.py): the      *)
(* constructor, the hyperparameter schema, _fit, and the sampling loop     *)
(* _internal_generate of _generate.  The early-stopping supervisor lives   *)
(* in the flow model (core/models/flows.py) and is modelled from the       *)
(* written specification.                                                  *)
(***************************************************************************)
EXTENDS Integers, Sequences, FiniteSets, TLC

\* ------------------------------------------------------------------ bounds
MaxCount == 15001        \* largest row count requested from the sampling loop
MaxFits == 2             \* fit calls followed on one adapter

MaxNIter == 8            \* largest n_iter of the enumerated supervisor runs
MaxIterMin == 3          \* largest n_iter_min
MaxIterPrint == 3        \* largest n_iter_print
MaxPatience == 2         \* largest patience
MaxScore == 2            \* metric scores range over 0..MaxScore

\* -------------------------------------------------------- program constants
BatchCap == 5000         \* min(5000, count)

VARIABLES
    \* sampling loop (_internal_generate)
    pc,          \* "idle", "loop", "done", "raised"
    count0,      \* the count argument as passed
    batch0,      \* batch when max_retries was computed
    count,       \* local count (rows still to request)
    batch,       \* local batch
    retries,     \* local retries
    result,      \* sizes of the draws concatenated into result, in order
    calls,       \* every self.model.generate call: [size, ok]
    returned     \* the returned table (sizes of its parts), <<>> before return

genVars == <<pc, count0, batch0, count, batch, retries, result, calls, returned>>

VARIABLES
    ctorStatus,   \* "none", "ok", "ValidationError", "TypeError"
    ctorKwargs,   \* keyword arguments of the last constructor call
    ctorCoercible,\* whether those arguments coerce to the annotated types
    ctorSource,   \* "none", "direct", "schema": who built the kwargs
    self,         \* the adapter's attributes; <<>> while no adapter exists
    model,        \* self.model: [id, variant, params, trained]; <<>> if unset
    modelsCreated,\* flow models constructed so far
    trainCalls,   \* model.fit invocations so far
    fitCalls,     \* _fit invocations so far
    fitOutcome,   \* "none", "self" (returned self), "raised"
    hpResult,     \* last value returned by hyperparameter_space; <<>> if none
    hpKwargs      \* names of the overrides passed to that call

adapterVars == <<ctorStatus, ctorKwargs, ctorCoercible, ctorSource, self, model, modelsCreated,
                 trainCalls, fitCalls, fitOutcome, hpResult, hpKwargs>>

VARIABLES
    tcfg,        \* [n_iter, n_iter_min, n_iter_print, patience]
    it,          \* iterations completed
    tstate,      \* "Warming", "Monitoring", "Stopped"
    strikes,     \* consecutive non-improving checks
    best,        \* best score seen so far; -1 before the first score
    lastImprove, \* iteration of the latest improving check; 0 if none
    stopReason   \* "none", "patience", "ceiling"

trainVars == <<tcfg, it, tstate, strikes, best, lastImprove, stopReason>>

vars == <<genVars, adapterVars, trainVars>>

Min(a, b) == IF a <= b THEN a ELSE b

RECURSIVE Rows(_)
\* number of rows of a table built by concatenating draws of the given sizes
Rows(t) == IF t = <<>> THEN 0 ELSE Head(t) + Rows(Tail(t))

RECURSIVE Requested(_)
\* number of rows asked of the model over a sequence of calls
Requested(cs) == IF cs = <<>> THEN 0 ELSE Head(cs).size + Requested(Tail(cs))

\* batch = min(5000, count)
InitialBatch(n) == Min(BatchCap, n)

RetriesBelowMaxFloorNoPlusOne(r, c0, b0) == r < c0 \div b0

\* retries < max_retries, where max_retries = count / batch + 1 is a true
\* (rational) division of the original count by the initial batch:
\* r < c0/b0 + 1  <=>  r*b0 < c0 + b0   (b0 > 0)
RetriesBelowMax(r, c0, b0) == r * b0 < c0 + b0

\* while count > 0 and retries < max_retries
LoopCond(c, r, c0, b0) == c > 0 /\ RetriesBelowMax(r, c0, b0)

\* batch = min(batch, count)
NextBatch(b, c) == Min(b, c)

ConcatResultAlways(res, b, ok) == Append(res, b)

\* try: result = pd.concat([result, generate(batch)]) except BaseException: pass
ConcatResult(res, b, ok) == IF ok THEN Append(res, b) ELSE res

RemainingAfterOnSuccess(c, b, ok) == IF ok THEN c - b ELSE c

\* count -= batch  (outside the try: runs whether or not the draw succeeded)
RemainingAfter(c, b, ok) == c - b

AfterFirstDrawKept(n) == n

\* count -= 1 after the first single-row draw
AfterFirstDraw(n) == n - 1

FirstDrawPcShielded(ok) == "loop"

\* result = self.model.generate(1) is outside any try: a failure propagates
FirstDrawPc(ok) == IF ok THEN "loop" ELSE "raised"

\* lines 270-277: entry of _internal_generate up to the loop
GenStart(n, ok) ==
    /\ pc = "idle"
    /\ count0' = n
    /\ batch0' = InitialBatch(n)
    /\ batch' = InitialBatch(n)
    /\ calls' = <<[size |-> 1, ok |-> ok]>>
    /\ pc' = FirstDrawPc(ok)
    /\ result' = IF ok THEN <<1>> ELSE <<>>
    /\ count' = IF FirstDrawPc(ok) = "loop" THEN AfterFirstDraw(n) ELSE n
    /\ retries' = 0
    /\ UNCHANGED returned
    /\ UNCHANGED <<adapterVars, trainVars>>

\* lines 279-289: one iteration of the while loop
LoopIter(ok) ==
    /\ pc = "loop"
    /\ LoopCond(count, retries, count0, batch0)
    /\ LET b == NextBatch(batch, count) IN
        /\ batch' = b
        /\ calls' = Append(calls, [size |-> b, ok |-> ok])
        /\ result' = ConcatResult(result, b, ok)
        /\ count' = RemainingAfter(count, b, ok)
    /\ retries' = retries + 1
    /\ UNCHANGED <<pc, count0, batch0, returned>>
    /\ UNCHANGED <<adapterVars, trainVars>>

\* line 291: return result
GenReturn ==
    /\ pc = "loop"
    /\ ~LoopCond(count, retries, count0, batch0)
    /\ pc' = "done"
    /\ returned' = result
    /\ UNCHANGED <<count0, batch0, count, batch, retries, result, calls>>
    /\ UNCHANGED <<adapterVars, trainVars>>

GenNext ==
    \/ pc = "idle" /\ \E n \in 1..MaxCount, ok \in BOOLEAN : GenStart(n, ok)
    \/ \E ok \in BOOLEAN : LoopIter(ok)
    \/ GenReturn

\* ------------------------------------------------------------------------
\* Plugin adapter: __init__, hyperparameter_space, _fit
\* Real-valued hyperparameters are held as integers: dropout and tail_bound
\* in thousandths (0.1 = 100, 0.2 = 200, 0.5 = 500), lr in millionths
\* (1e-3 = 1000, 1e-4 = 100, 2e-4 = 200).

Axis(name, kind, low, high, step, choices) ==
    [name |-> name, kind |-> kind, low |-> low, high |-> high,
     step |-> step, choices |-> choices]

hyperparameter_space_axis_renamed(kwargs) ==
    << Axis("n_iter", "integer", 100, 5000, 100, {}),
       Axis("n_layers_hidden", "integer", 1, 10, 1, {}),
       Axis("n_units_hidden", "integer", 10, 100, 1, {}),
       Axis("batch_size", "categorical", 0, 0, 0, {32, 64, 128, 256, 512}),
       Axis("dropout", "float", 0, 200, 0, {}),
       Axis("batch_norm", "categorical", 0, 0, 0, {TRUE, FALSE}),
       Axis("learning_rate", "categorical", 0, 0, 0, {1000, 100, 200}),
       Axis("linear_transform_type", "categorical", 0, 0, 0,
            {"lu", "permutation", "svd"}),
       Axis("base_transform_type", "categorical", 0, 0, 0,
            {"affine-coupling", "quadratic-coupling", "rq-coupling",
             "affine-autoregressive", "quadratic-autoregressive",
             "rq-autoregressive"}) >>

\* the static schema; the overrides are accepted and ignored
hyperparameter_space(kwargs) ==
    << Axis("n_iter", "integer", 100, 5000, 100, {}),
       Axis("n_layers_hidden", "integer", 1, 10, 1, {}),
       Axis("n_units_hidden", "integer", 10, 100, 1, {}),
       Axis("batch_size", "categorical", 0, 0, 0, {32, 64, 128, 256, 512}),
       Axis("dropout", "float", 0, 200, 0, {}),
       Axis("batch_norm", "categorical", 0, 0, 0, {TRUE, FALSE}),
       Axis("lr", "categorical", 0, 0, 0, {1000, 100, 200}),
       Axis("linear_transform_type", "categorical", 0, 0, 0,
            {"lu", "permutation", "svd"}),
       Axis("base_transform_type", "categorical", 0, 0, 0,
            {"affine-coupling", "quadratic-coupling", "rq-coupling",
             "affine-autoregressive", "quadratic-autoregressive",
             "rq-autoregressive"}) >>

\* whether a value lies in the domain an axis declares
InDomain(a, v) ==
    CASE a.kind = "integer" ->
            a.low <= v /\ v <= a.high /\ (v - a.low) % a.step = 0
      [] a.kind = "float" -> a.low <= v /\ v <= a.high
      [] OTHER -> v \in a.choices

\* the values a tuner draws from an axis: the ends of a range, every choice
AxisSamples(a) ==
    IF a.kind = "categorical" THEN a.choices
    ELSE {a.low, a.high}

\* named keyword parameters of __init__
InitParams ==
    {"n_iter", "n_layers_hidden", "n_units_hidden", "batch_size",
     "num_transform_blocks", "dropout", "batch_norm", "num_bins", "tail_bound",
     "lr", "apply_unconditional_transform", "base_distribution",
     "linear_transform_type", "base_transform_type", "encoder_max_clusters",
     "tabular", "n_iter_min", "n_iter_print", "patience", "patience_metric",
     "workspace", "compress_dataset", "sampling_patience", "random_state",
     "device"}

\* defaults of the parameters __init__ stores on self
InitDefaults ==
    [n_iter |-> 1000, n_layers_hidden |-> 1, n_units_hidden |-> 100,
     batch_size |-> 500, num_transform_blocks |-> 1, dropout |-> 100,
     batch_norm |-> FALSE, num_bins |-> 8, tail_bound |-> 3000, lr |-> 1000,
     apply_unconditional_transform |-> TRUE,
     base_distribution |-> "standard_normal",
     linear_transform_type |-> "permutation",
     base_transform_type |-> "rq-autoregressive",
     encoder_max_clusters |-> 10, tabular |-> TRUE,
     n_iter_min |-> 100, n_iter_print |-> 50, patience |-> 5,
     patience_metric |-> "detection_mlp"]

\* keyword arguments that match no named parameter land in **kwargs
UnknownKwargs(kwargs) == DOMAIN kwargs \ InitParams

\* Plugin.__init__(..., **kwargs) of the base class: a keyword it does not
\* know is an unknown-argument failure
PluginInitOutcome(extra) == IF extra = {} THEN "ok" ELSE "TypeError"

\* a supplied axis value outside the domain the schema declares for it
OutOfDomain(kwargs) ==
    LET H == hyperparameter_space(<<>>) IN
    \E i \in 1..Len(H) :
        H[i].name \in DOMAIN kwargs /\ ~InDomain(H[i], kwargs[H[i].name])

InitOutcomeDomainChecked(kwargs, coercible) ==
    IF ~coercible THEN "ValidationError"
    ELSE IF OutOfDomain(kwargs) THEN "ConfigurationError"
    ELSE PluginInitOutcome(UnknownKwargs(kwargs))

\* outcome of __init__: pydantic's validate_arguments rejects arguments it
\* cannot coerce to the annotated types, then the base constructor runs;
\* nothing compares a value with the schema
InitOutcome(kwargs, coercible) ==
    IF ~coercible THEN "ValidationError"
    ELSE PluginInitOutcome(UnknownKwargs(kwargs))

\* self.<name> = <name> for every stored parameter
InitSelf(kwargs) ==
    [k \in DOMAIN InitDefaults |->
        IF k \in DOMAIN kwargs THEN kwargs[k] ELSE InitDefaults[k]]

\* the flow variant _fit builds
ModelVariant(tabular) == IF tabular THEN "TabularFlows" ELSE "NormalizingFlows"

\* constructor arguments _fit hands to the flow model
ModelParams(s) ==
    LET passed == IF s.tabular
                  THEN DOMAIN InitDefaults \ {"tabular"}
                  ELSE DOMAIN InitDefaults \ {"tabular", "encoder_max_clusters"}
    IN [k \in passed |-> s[k]]

FitOutcomeSwallowed(trainOk) == "self"

\* self.model.fit(...) is not wrapped: its error leaves _fit; else return self
FitOutcome(trainOk) == IF trainOk THEN "self" ELSE "raised"

\* __init__(**kwargs)
Construct(kwargs, coercible, source) ==
    /\ ctorStatus = "none"
    /\ ctorKwargs' = kwargs
    /\ ctorCoercible' = coercible
    /\ ctorSource' = source
    /\ ctorStatus' = InitOutcome(kwargs, coercible)
    /\ self' = IF InitOutcome(kwargs, coercible) = "ok"
               THEN InitSelf(kwargs) ELSE <<>>
    /\ UNCHANGED <<model, modelsCreated, trainCalls, fitCalls, fitOutcome,
                   hpResult, hpKwargs>>
    /\ UNCHANGED <<genVars, trainVars>>

\* keyword arguments a caller writes by hand
DirectKwargs ==
    { d @@ b @@ t @@ x :
        d \in {<<>>} \cup {("dropout" :> v) : v \in {0, 100, 200, 500}},
        b \in {<<>>} \cup {("batch_size" :> v) : v \in {32, 500, 512, 1000}},
        t \in {<<>>} \cup {("tabular" :> v) : v \in BOOLEAN},
        x \in {<<>>, ("n_epochs" :> 10)} }

ConstructDirect ==
    \E kwargs \in DirectKwargs, coercible \in BOOLEAN :
        Construct(kwargs, coercible, "direct")

\* a tuner samples one value per axis of the schema and constructs with it
SampleAndConstruct ==
    /\ ctorStatus = "none"
    /\ LET H == hyperparameter_space(<<>>) IN
       \E v1 \in AxisSamples(H[1]), v2 \in AxisSamples(H[2]),
          v3 \in AxisSamples(H[3]), v4 \in AxisSamples(H[4]),
          v5 \in AxisSamples(H[5]), v6 \in AxisSamples(H[6]),
          v7 \in AxisSamples(H[7]), v8 \in AxisSamples(H[8]),
          v9 \in AxisSamples(H[9]) :
            Construct((H[1].name :> v1) @@ (H[2].name :> v2) @@
                      (H[3].name :> v3) @@ (H[4].name :> v4) @@
                      (H[5].name :> v5) @@ (H[6].name :> v6) @@
                      (H[7].name :> v7) @@ (H[8].name :> v8) @@
                      (H[9].name :> v9), TRUE, "schema")

\* hyperparameter_space(**kwargs): static, callable in any state
CallHyperparameterSpace ==
    \E kw \in {{}, {"n_iter"}, {"dropout", "seed"}} :
        /\ hpResult' = hyperparameter_space(kw)
        /\ hpKwargs' = kw
        /\ UNCHANGED <<ctorStatus, ctorKwargs, ctorCoercible, ctorSource, self,
                       model, modelsCreated, trainCalls, fitCalls, fitOutcome>>
        /\ UNCHANGED <<genVars, trainVars>>

\* _fit(X): build the flow chosen by self.tabular, store it, train it once
Fit(trainOk) ==
    /\ ctorStatus = "ok"
    /\ fitCalls < MaxFits
    /\ fitCalls' = fitCalls + 1
    /\ modelsCreated' = modelsCreated + 1
    /\ model' = [id |-> modelsCreated + 1,
                 variant |-> ModelVariant(self.tabular),
                 params |-> ModelParams(self),
                 trained |-> trainOk]
    /\ trainCalls' = trainCalls + 1
    /\ fitOutcome' = FitOutcome(trainOk)
    /\ UNCHANGED <<ctorStatus, ctorKwargs, ctorCoercible, ctorSource, self,
                   hpResult, hpKwargs>>
    /\ UNCHANGED <<genVars, trainVars>>

AdapterNext ==
    \/ ConstructDirect
    \/ SampleAndConstruct
    \/ CallHyperparameterSpace
    \/ \E trainOk \in BOOLEAN : Fit(trainOk)

\* ------------------------------------------------------------------------
\* Training supervisor (early stopping) run by model.fit.  Its code is in
\* the flow model, outside this file; the state machine below follows the
\* written specification of the supervisor.

\* n_iter=500, n_iter_min=100, n_iter_print=50, patience=3
ScenarioCfg ==
    [n_iter |-> 500, n_iter_min |-> 100, n_iter_print |-> 50, patience |-> 3]

TrainCfgs ==
    [n_iter : 1..MaxNIter, n_iter_min : 0..MaxIterMin,
     n_iter_print : 1..MaxIterPrint, patience : 1..MaxPatience]
    \cup {ScenarioCfg}

\* Warming while iteration < n_iter_min, Monitoring from n_iter_min on
PhaseOf(c, i) == IF i < c.n_iter_min THEN "Warming" ELSE "Monitoring"

\* while Monitoring, a check is made every n_iter_print iterations
IsCheck(c, i) == PhaseOf(c, i) = "Monitoring" /\ i % c.n_iter_print = 0

StopReasonLate(c, i, k) ==
    IF k > c.patience THEN "patience"
    ELSE IF i >= c.n_iter THEN "ceiling"
    ELSE "none"

\* stop when the strike counter reaches patience, or at the n_iter ceiling
StopReason(c, i, k) ==
    IF k >= c.patience THEN "patience"
    ELSE IF i >= c.n_iter THEN "ceiling"
    ELSE "none"

\* a check improves when scoring succeeds with a score above the best seen
Improves(ok, score, b) == ok /\ score > b

\* one training iteration at which no check is due
TrainIter ==
    /\ tstate # "Stopped"
    /\ ~IsCheck(tcfg, it + 1)
    /\ it' = it + 1
    /\ stopReason' = StopReason(tcfg, it + 1, strikes)
    /\ tstate' = IF StopReason(tcfg, it + 1, strikes) # "none"
                 THEN "Stopped" ELSE PhaseOf(tcfg, it + 1)
    /\ UNCHANGED <<tcfg, strikes, best, lastImprove>>
    /\ UNCHANGED <<genVars, adapterVars>>

\* one training iteration followed by a metric check; ok = FALSE is a
\* scoring failure, counted as a non-improving check
TrainCheck(ok, score) ==
    /\ tstate # "Stopped"
    /\ IsCheck(tcfg, it + 1)
    /\ it' = it + 1
    /\ LET up == Improves(ok, score, best)
           k == IF up THEN 0 ELSE strikes + 1
       IN /\ strikes' = k
          /\ best' = IF up THEN score ELSE best
          /\ lastImprove' = IF up THEN it + 1 ELSE lastImprove
          /\ stopReason' = StopReason(tcfg, it + 1, k)
          /\ tstate' = IF StopReason(tcfg, it + 1, k) # "none"
                       THEN "Stopped" ELSE PhaseOf(tcfg, it + 1)
    /\ UNCHANGED tcfg
    /\ UNCHANGED <<genVars, adapterVars>>

TrainNext ==
    \/ TrainIter
    \/ \E ok \in BOOLEAN, score \in 0..MaxScore : TrainCheck(ok, score)

\* ------------------------------------------------------------------------
\* Specifications

\* the sampling loop, on an adapter built with the defaults and fitted once
GenInit ==
    /\ pc = "idle"
    /\ count0 = 0
    /\ batch0 = 0
    /\ count = 0
    /\ batch = 0
    /\ retries = 0
    /\ result = <<>>
    /\ calls = <<>>
    /\ returned = <<>>
    /\ ctorStatus = "ok"
    /\ ctorKwargs = <<>>
    /\ ctorCoercible = TRUE
    /\ ctorSource = "direct"
    /\ self = InitSelf(<<>>)
    /\ model = [id |-> 1, variant |-> ModelVariant(InitDefaults.tabular),
                params |-> ModelParams(InitSelf(<<>>)), trained |-> TRUE]
    /\ modelsCreated = 1
    /\ trainCalls = 1
    /\ fitCalls = 1
    /\ fitOutcome = "self"
    /\ hpResult = <<>>
    /\ hpKwargs = {}
    /\ tcfg = ScenarioCfg
    /\ it = 0
    /\ tstate = "Warming"
    /\ strikes = 0
    /\ best = -1
    /\ lastImprove = 0
    /\ stopReason = "none"

SpecGen == GenInit /\ [][GenNext]_vars

\* the adapter from before its construction: __init__, schema, _fit
AdapterInit ==
    /\ ctorStatus = "none"
    /\ ctorKwargs = <<>>
    /\ ctorCoercible = TRUE
    /\ ctorSource = "none"
    /\ self = <<>>
    /\ model = <<>>
    /\ modelsCreated = 0
    /\ trainCalls = 0
    /\ fitCalls = 0
    /\ fitOutcome = "none"
    /\ hpResult = <<>>
    /\ hpKwargs = {}
    /\ pc = "idle"
    /\ count0 = 0
    /\ batch0 = 0
    /\ count = 0
    /\ batch = 0
    /\ retries = 0
    /\ result = <<>>
    /\ calls = <<>>
    /\ returned = <<>>
    /\ tcfg = ScenarioCfg
    /\ it = 0
    /\ tstate = "Warming"
    /\ strikes = 0
    /\ best = -1
    /\ lastImprove = 0
    /\ stopReason = "none"

SpecAdapter == AdapterInit /\ [][AdapterNext]_vars

\* a training run under the supervisor, for every enumerated configuration
TrainInit ==
    /\ tcfg \in TrainCfgs
    /\ it = 0
    /\ tstate = PhaseOf(tcfg, 0)
    /\ strikes = 0
    /\ best = -1
    /\ lastImprove = 0
    /\ stopReason = "none"
    /\ pc = "idle"
    /\ count0 = 0
    /\ batch0 = 0
    /\ count = 0
    /\ batch = 0
    /\ retries = 0
    /\ result = <<>>
    /\ calls = <<>>
    /\ returned = <<>>
    /\ ctorStatus = "none"
    /\ ctorKwargs = <<>>
    /\ ctorCoercible = TRUE
    /\ ctorSource = "none"
    /\ self = <<>>
    /\ model = <<>>
    /\ modelsCreated = 0
    /\ trainCalls = 0
    /\ fitCalls = 0
    /\ fitOutcome = "none"
    /\ hpResult = <<>>
    /\ hpKwargs = {}

SpecTrain == TrainInit /\ [][TrainNext]_vars

\* ------------------------------------------------ sampling loop: properties

\* every self.model.generate call so far succeeded
AllDrawsSucceeded == \A i \in 1..Len(calls) : calls[i].ok

\* the first single-row draw succeeded and every draw inside the loop failed
FirstOkLoopFailed ==
    /\ Len(calls) >= 1
    /\ calls[1].ok
    /\ \A i \in 2..Len(calls) : ~calls[i].ok

\* rows delivered by the successful calls
RECURSIVE Delivered(_)
Delivered(cs) ==
    IF cs = <<>> THEN 0
    ELSE (IF Head(cs).ok THEN Head(cs).size ELSE 0) + Delivered(Tail(cs))

\* C1: when the first draw and every loop draw succeed, the returned table has
\* exactly count rows and the loop ran at most floor(count/initial_batch) + 1
\* iterations.
C1_AllSucceedExactCount ==
    (pc = "done" /\ AllDrawsSucceeded) =>
        /\ Rows(returned) = count0
        /\ batch0 = Min(BatchCap, count0)
        /\ retries <= (count0 \div batch0) + 1

C1_Witness ==
    /\ pc = "done"
    /\ AllDrawsSucceeded
    /\ count0 = 7000
    /\ Rows(returned) = 7000
    /\ retries = 2

\* C2: when the first draw succeeds and every loop draw fails, nothing is
\* raised, the returned table is the one row of the first draw, and the loop
\* ran at most max_retries iterations.
C2_LoopFailuresLeaveOneRow ==
    FirstOkLoopFailed =>
        /\ pc # "raised"
        /\ result = <<1>>
        /\ retries * batch0 <= count0 + batch0
        /\ pc = "done" => (returned = <<1>> /\ Rows(returned) = 1)

C2_Witness ==
    /\ pc = "done"
    /\ FirstOkLoopFailed
    /\ Len(calls) = 4
    /\ returned = <<1>>

\* C3: a returned table with fewer than count rows occurs only when the loop
\* ended with the retry budget exhausted (retries >= max_retries).
C3_ShortOnlyWhenBudgetExhausted ==
    (pc = "done" /\ Rows(returned) < count0) =>
        ~RetriesBelowMax(retries, count0, batch0)

\* C4: an error escapes exactly when the first single-row draw fails, and then
\* no further draw is made; a failed loop draw is not propagated, adds no rows,
\* and the loop still goes on to return a table.
C4_OnlyFirstDrawPropagates ==
    /\ pc = "raised" <=> (Len(calls) >= 1 /\ ~calls[1].ok)
    /\ pc = "raised" => (Len(calls) = 1 /\ returned = <<>>)
    /\ pc \in {"loop", "done"} => Rows(result) = Delivered(calls)
    /\ pc = "done" => (returned = result /\ Rows(returned) >= 1)

C4_Witness ==
    /\ pc = "done"
    /\ \E i \in 2..Len(calls) : ~calls[i].ok
    /\ \E i \in 2..Len(calls) : calls[i].ok

\* C5: for count = 1 the model's sample primitive is called exactly once, with
\* size 1, no loop iteration runs, and the returned table is that single draw.
C5_CountOneSingleDraw ==
    (count0 = 1 /\ pc # "idle") =>
        /\ Len(calls) = 1
        /\ calls[1].size = 1
        /\ retries = 0
        /\ pc = "done" => returned = <<1>>

C5_Witness ==
    /\ count0 = 1
    /\ pc = "done"
    /\ returned = <<1>>
    /\ calls = <<[size |-> 1, ok |-> TRUE]>>

\* C10: every loop iteration requests min(5000, remaining) rows and subtracts
\* that amount from remaining whether or not the draw succeeded: remaining
\* stays >= 0, rows requested so far + remaining = count, and the loop exits
\* with remaining = 0 and retries strictly below max_retries.
C10_RemainingConservation ==
    pc \in {"loop", "done"} =>
        /\ count >= 0
        /\ Requested(calls) + count = count0
        /\ retries = Len(calls) - 1
        /\ \A i \in 2..Len(calls) :
               calls[i].size =
                   Min(BatchCap, count0 - Requested(SubSeq(calls, 1, i - 1)))
        /\ pc = "done" =>
               (count = 0 /\ RetriesBelowMax(retries, count0, batch0))

C10_Witness ==
    /\ pc = "done"
    /\ count0 > 2 * BatchCap
    /\ Len(calls) = 4
    /\ ~calls[2].ok
    /\ calls[3].ok
    /\ count = 0
\* ------------------------------------------------------ adapter: properties

\* C6 (as stated): a constructor call with a value outside its schema domain
\* fails with a ConfigurationError and creates no adapter.
C6_OutOfDomainRejected ==
    (ctorStatus \notin {"none", "ValidationError", "TypeError"}
        /\ OutOfDomain(ctorKwargs)) =>
        (ctorStatus = "ConfigurationError" /\ DOMAIN self = {})

\* C6 (amended): the constructor never compares a value with the schema: when
\* the arguments pass type validation and carry no unknown keyword, the
\* adapter is created and stores every supplied value unchanged, in or out of
\* its schema domain; no ConfigurationError is raised at construction.
C6_OutOfDomainAccepted ==
    ctorStatus # "none" =>
        /\ ctorStatus # "ConfigurationError"
        /\ (ctorCoercible /\ UnknownKwargs(ctorKwargs) = {}) => ctorStatus = "ok"
        /\ ctorStatus = "ok" =>
               \A k \in DOMAIN ctorKwargs \cap DOMAIN InitDefaults :
                   self[k] = ctorKwargs[k]

C6_Witness ==
    /\ ctorStatus = "ok"
    /\ OutOfDomain(ctorKwargs)
    /\ "dropout" \in DOMAIN ctorKwargs
    /\ self["dropout"] = 500
    /\ fitCalls = 0

\* the axis names of a schema value, in order
AxisNames(H) == [i \in 1..Len(H) |-> H[i].name]

\* C7: hyperparameter_space returns, whatever overrides are passed and in
\* whatever state, the same nine axis names in the same order, each a named
\* keyword parameter of the constructor, so a configuration sampled from the
\* schema constructs without an unknown-argument failure.
C7_SchemaAxesStable ==
    /\ Len(hpResult) > 0 =>
           /\ AxisNames(hpResult) =
                  <<"n_iter", "n_layers_hidden", "n_units_hidden",
                    "batch_size", "dropout", "batch_norm", "lr",
                    "linear_transform_type", "base_transform_type">>
           /\ \A i \in 1..Len(hpResult) : hpResult[i].name \in InitParams
    /\ ctorSource = "schema" =>
           /\ UnknownKwargs(ctorKwargs) = {}
           /\ ctorStatus = "ok"

C7_Witness ==
    /\ Len(hpResult) = 9
    /\ hpKwargs = {"dropout", "seed"}
    /\ ctorSource = "schema"
    /\ ctorStatus = "ok"
    /\ self["lr"] = 200

\* C8: every fit call constructs one new model of the variant chosen by the
\* tabular flag, stores it in place of the previous one and trains it once;
\* a training error leaves fit (no retry, not swallowed) and a successful
\* training returns the adapter.
C8_FitOneModelOneTraining ==
    /\ modelsCreated = fitCalls
    /\ trainCalls = fitCalls
    /\ fitCalls = 0 => (fitOutcome = "none" /\ DOMAIN model = {})
    /\ fitCalls > 0 =>
           /\ model.id = modelsCreated
           /\ model.variant = (IF self["tabular"] THEN "TabularFlows"
                                                  ELSE "NormalizingFlows")
           /\ fitOutcome = "raised" <=> ~model.trained
           /\ fitOutcome = "self" <=> model.trained

C8_Witness ==
    /\ fitCalls = 2
    /\ fitOutcome = "raised"
    /\ model.id = 2
    /\ model.variant = "NormalizingFlows"

\* --------------------------------------------------- supervisor: properties

\* n_iter_min + patience * n_iter_print, capped by the n_iter ceiling
PatienceBound(c) ==
    Min(c.n_iter, c.n_iter_min + c.patience * c.n_iter_print)

\* C9: when no check after n_iter_min improves the metric, training has
\* stopped by iteration n_iter_min + patience * n_iter_print (or by n_iter if
\* that is earlier), by patience unless the ceiling came first; with
\* n_iter=500, n_iter_min=100, n_iter_print=50, patience=3 and the last
\* improvement at iteration 150 it stops at iteration 300.
C9_StopsWithinPatienceBound ==
    /\ lastImprove <= tcfg.n_iter_min =>
           /\ it <= PatienceBound(tcfg)
           /\ it = PatienceBound(tcfg) => tstate = "Stopped"
           /\ tstate = "Stopped" =>
                  (stopReason = "patience" \/ it = tcfg.n_iter)
    /\ (tcfg = ScenarioCfg /\ lastImprove = 150 /\ it >= 300) =>
           (it = 300 /\ tstate = "Stopped" /\ stopReason = "patience")

C9_Witness ==
    /\ tcfg = ScenarioCfg
    /\ tstate = "Stopped"
    /\ lastImprove = 150
    /\ it = 300
    /\ stopReason = "patience"
====
